---------------------------- MODULE Spec2Model ----------------------------
(***************************************************************************)
(* A model of check_urls.py (subsidy-url-watch): one monitoring pass       *)
(* (main) over a list of URLs, the retrying fetch, the text normaliser,    *)
(* the per-URL content store (state.json + state_text/*.txt), the bounded  *)
(* diff (make_diff over difflib.unified_diff) and the notification body.   *)
(*                                                                         *)
(* Text is a sequence of characters, each character a one-character        *)
(* string; "\n" is the line break.  URLs and error descriptions occur in   *)
(* text as single opaque tokens.                                           *)
(***************************************************************************)
EXTENDS Integers, Sequences, FiniteSets, TLC

(***************************************************************************)
(* Program constants.                                                      *)
(***************************************************************************)
RETRY_TOTAL == 2

DIFF_MAX_LINES == 20

(***************************************************************************)
(* Bounds of the model.                                                    *)
(***************************************************************************)
\* longest input list (urls.txt) of a run
MaxUrls == 2

\* most lines of a text handed to make_diff
MaxLines == 2

\* largest cap handed to make_diff as max_lines
MaxCap == 2

\* the history counts up to MaxMissed runs in a row that failed to fetch a URL
MaxMissed == 2

(***************************************************************************)
(* Generic helpers on sequences.                                           *)
(***************************************************************************)
Range(s) == {s[k] : k \in DOMAIN s}

Max2(x, y) == IF x >= y THEN x ELSE y

Min2(x, y) == IF x <= y THEN x ELSE y

RECURSIVE Flatten(_)
Flatten(ss) == IF ss = <<>> THEN <<>> ELSE Head(ss) \o Flatten(Tail(ss))

\* str.startswith(prefix)
StartsWith(ln, prefix) ==
    /\ Len(ln) >= Len(prefix)
    /\ SubSeq(ln, 1, Len(prefix)) = prefix

(***************************************************************************)
(* str.splitlines / str.strip / "\n".join, character by character.         *)
(***************************************************************************)
Whitespace == {" ", "\n"}

RECURSIVE SplitAcc(_, _, _)
SplitAcc(s, cur, started) ==
    IF s = <<>>
      THEN IF started THEN <<cur>> ELSE <<>>
      ELSE IF Head(s) = "\n"
             THEN <<cur>> \o SplitAcc(Tail(s), <<>>, FALSE)
             ELSE SplitAcc(Tail(s), Append(cur, Head(s)), TRUE)

\* a final line break ends the last line and opens no further one
splitlines(s) == SplitAcc(s, <<>>, FALSE)

RECURSIVE LStrip(_)
LStrip(s) ==
    IF s # <<>> /\ Head(s) \in Whitespace THEN LStrip(Tail(s)) ELSE s

RECURSIVE RStrip(_)
RStrip(s) ==
    IF s # <<>> /\ s[Len(s)] \in Whitespace
      THEN RStrip(SubSeq(s, 1, Len(s) - 1))
      ELSE s

strip(s) == RStrip(LStrip(s))

RECURSIVE join(_)
join(ls) ==
    IF ls = <<>> THEN <<>>
    ELSE IF Len(ls) = 1 THEN ls[1]
    ELSE ls[1] \o <<"\n">> \o join(Tail(ls))

(***************************************************************************)
(* normalize_html_to_text.  The markup is the character stream of the      *)
(* page; the token "<script>" stands for one whole script / style /        *)
(* noscript / svg / canvas element, which decompose() removes.             *)
(***************************************************************************)
Decomposed == {"<script>"}

normalize_html_to_text(html) ==
    LET text   == SelectSeq(html, LAMBDA c : c \notin Decomposed)
        lines  == splitlines(text)
        lines1 == [k \in DOMAIN lines |-> strip(lines[k])]
        lines2 == SelectSeq(lines1, LAMBDA ln : ln # <<>>)
    IN  join(lines2)

(***************************************************************************)
(* sha256 / url_key: digests, computed as an injective positional code of  *)
(* the characters (no two texts of the model collide, as for SHA-256).     *)
(***************************************************************************)
CharCode(c) ==
    CASE c = "a"  -> 1
      [] c = "b"  -> 2
      [] c = " "  -> 3
      [] c = "\n" -> 4
      [] c = "-"  -> 5
      [] c = "+"  -> 6
      [] c = "@"  -> 7
      [] c = "u1" -> 8
      [] c = "u2" -> 9
      [] c = "u3" -> 10
      [] OTHER    -> 11

RECURSIVE Digest(_, _)
Digest(s, acc) ==
    IF s = <<>> THEN acc ELSE Digest(Tail(s), acc * 12 + CharCode(Head(s)))

sha256(s) == Digest(s, 1)

\* the name (stem) of the text file of a URL
url_key(url) == Digest(<<url>>, 1)

(***************************************************************************)
(* difflib.SequenceMatcher on two lists of lines (no junk; the popularity  *)
(* heuristic only acts on lists of 200 lines or more).  Indices are        *)
(* Python's: 0-based, half-open.                                           *)
(***************************************************************************)
RECURSIVE MatchLen(_, _, _, _, _, _)
MatchLen(a, b, i, j, ahi, bhi) ==
    IF i < ahi /\ j < bhi /\ a[i + 1] = b[j + 1]
      THEN 1 + MatchLen(a, b, i + 1, j + 1, ahi, bhi)
      ELSE 0

\* the longest matching block; of those the one starting earliest in a,
\* and of those the one starting earliest in b
BestMatch(cand, alo, blo) ==
    IF cand = {} THEN <<alo, blo, 0>>
    ELSE CHOOSE c \in cand :
           \A d \in cand :
             \/ c[3] > d[3]
             \/ /\ c[3] = d[3]
                /\ \/ c[1] < d[1]
                   \/ c[1] = d[1] /\ c[2] <= d[2]

find_longest_match(a, b, alo, ahi, blo, bhi) ==
    BestMatch({c \in {<<i, j, MatchLen(a, b, i, j, ahi, bhi)>> :
                        i \in alo .. ahi - 1, j \in blo .. bhi - 1} :
                 c[3] > 0},
              alo, blo)

\* the recursion of get_matching_blocks around the block m = (i, j, k)
RECURSIVE MatchBlocks(_, _, _, _, _, _)
MatchAround(a, b, alo, ahi, blo, bhi, m) ==
    IF m[3] = 0 THEN <<>>
    ELSE (IF alo < m[1] /\ blo < m[2]
            THEN MatchBlocks(a, b, alo, m[1], blo, m[2]) ELSE <<>>)
         \o <<m>>
         \o (IF m[1] + m[3] < ahi /\ m[2] + m[3] < bhi
               THEN MatchBlocks(a, b, m[1] + m[3], ahi, m[2] + m[3], bhi)
               ELSE <<>>)

MatchBlocks(a, b, alo, ahi, blo, bhi) ==
    MatchAround(a, b, alo, ahi, blo, bhi,
                find_longest_match(a, b, alo, ahi, blo, bhi))

\* adjacent blocks are merged into one
RECURSIVE Collapse(_, _)
Collapse(blocks, cur) ==
    IF blocks = <<>>
      THEN IF cur[3] > 0 THEN <<cur>> ELSE <<>>
      ELSE LET nx == Head(blocks)
           IN  IF cur[1] + cur[3] = nx[1] /\ cur[2] + cur[3] = nx[2]
                 THEN Collapse(Tail(blocks), <<cur[1], cur[2], cur[3] + nx[3]>>)
                 ELSE (IF cur[3] > 0 THEN <<cur>> ELSE <<>>)
                      \o Collapse(Tail(blocks), nx)

get_matching_blocks(a, b) ==
    Collapse(MatchBlocks(a, b, 0, Len(a), 0, Len(b)), <<0, 0, 0>>)
      \o << <<Len(a), Len(b), 0>> >>

RECURSIVE OpcodesFrom(_, _, _)
OpcodesFrom(blocks, i, j) ==
    IF blocks = <<>> THEN <<>>
    ELSE LET ai   == Head(blocks)[1]
             bj   == Head(blocks)[2]
             size == Head(blocks)[3]
             tag  == IF i < ai /\ j < bj THEN "replace"
                     ELSE IF i < ai THEN "delete"
                     ELSE IF j < bj THEN "insert"
                     ELSE ""
         IN  (IF tag # "" THEN << <<tag, i, ai, j, bj>> >> ELSE <<>>)
             \o (IF size > 0
                   THEN << <<"equal", ai, ai + size, bj, bj + size>> >>
                   ELSE <<>>)
             \o OpcodesFrom(Tail(blocks), ai + size, bj + size)

get_opcodes(a, b) == OpcodesFrom(get_matching_blocks(a, b), 0, 0)

\* the loop of get_grouped_opcodes: the finished groups, then the open one
RECURSIVE GroupLoop(_, _, _)
GroupLoop(codes, group, n) ==
    IF codes = <<>>
      THEN IF group # <<>> /\ ~(Len(group) = 1 /\ group[1][1] = "equal")
             THEN <<group>> ELSE <<>>
      ELSE LET c == Head(codes)
           IN  IF c[1] = "equal" /\ c[3] - c[2] > n + n
                 THEN <<Append(group, <<"equal", c[2], Min2(c[3], c[2] + n),
                                        c[4], Min2(c[5], c[4] + n)>>)>>
                      \o GroupLoop(Tail(codes),
                                   << <<"equal", Max2(c[2], c[3] - n), c[3],
                                        Max2(c[4], c[5] - n), c[5]>> >>, n)
                 ELSE GroupLoop(Tail(codes), Append(group, c), n)

NonEmptyCodes(codes) ==
    IF codes = <<>> THEN << <<"equal", 0, 1, 0, 1>> >> ELSE codes

\* a leading equal opcode keeps its last n lines
TrimFirst(codes, n) ==
    IF codes[1][1] = "equal"
      THEN [codes EXCEPT ![1] =
              <<"equal", Max2(codes[1][2], codes[1][3] - n), codes[1][3],
                Max2(codes[1][4], codes[1][5] - n), codes[1][5]>>]
      ELSE codes

\* a trailing equal opcode keeps its first n lines
TrimLast(codes, n) ==
    IF codes[Len(codes)][1] = "equal"
      THEN [codes EXCEPT ![Len(codes)] =
              <<"equal", codes[Len(codes)][2],
                Min2(codes[Len(codes)][3], codes[Len(codes)][2] + n),
                codes[Len(codes)][4],
                Min2(codes[Len(codes)][5], codes[Len(codes)][4] + n)>>]
      ELSE codes

get_grouped_opcodes(a, b, n) ==
    GroupLoop(TrimLast(TrimFirst(NonEmptyCodes(get_opcodes(a, b)), n), n),
              <<>>, n)

(***************************************************************************)
(* difflib.unified_diff(prev_lines, curr_lines, fromfile="before",         *)
(* tofile="after", lineterm="", n=1): the lines it yields.                 *)
(***************************************************************************)
FileHeaderFrom == <<"-", "-", "-", " ", "b", "e", "f", "o", "r", "e">>

FileHeaderTo == <<"+", "+", "+", " ", "a", "f", "t", "e", "r">>

\* _format_range_unified: the numbers are single tokens
FormatRange(start, stop) ==
    LET length == stop - start
    IN  IF length = 1 THEN <<ToString(start + 1)>>
        ELSE <<ToString(IF length = 0 THEN start ELSE start + 1), ",",
               ToString(length)>>

HunkHeader(group) ==
    LET first == group[1]
        last  == group[Len(group)]
    IN  <<"@", "@", " ", "-">> \o FormatRange(first[2], last[3])
          \o <<" ", "+">> \o FormatRange(first[4], last[5])
          \o <<" ", "@", "@">>

Prefixed(p, ls, lo, hi) == [k \in 1 .. (hi - lo) |-> <<p>> \o ls[lo + k]]

OpcodeLines(a, b, c) ==
    IF c[1] = "equal" THEN Prefixed(" ", a, c[2], c[3])
    ELSE (IF c[1] \in {"replace", "delete"}
            THEN Prefixed("-", a, c[2], c[3]) ELSE <<>>)
         \o (IF c[1] \in {"replace", "insert"}
               THEN Prefixed("+", b, c[4], c[5]) ELSE <<>>)

GroupLines(a, b, group) ==
    <<HunkHeader(group)>>
      \o Flatten([k \in DOMAIN group |-> OpcodeLines(a, b, group[k])])

\* the two file headers before the first hunk, if there is one
DiffOfGroups(a, b, groups) ==
    IF groups = <<>> THEN <<>>
    ELSE <<FileHeaderFrom, FileHeaderTo>>
         \o Flatten([g \in DOMAIN groups |-> GroupLines(a, b, groups[g])])

unified_diff(a, b, n) == DiffOfGroups(a, b, get_grouped_opcodes(a, b, n))

(***************************************************************************)
(* make_diff: the loop over the lines of the unified diff.                 *)
(***************************************************************************)
IsMarker(ln) ==
    \/ StartsWith(ln, <<"-", "-", "-">>)
    \/ StartsWith(ln, <<"+", "+", "+">>)
    \/ StartsWith(ln, <<"@", "@">>)

\* ln.startswith(("+", "-")) and ln[1:].strip()
IsPickable(ln) ==
    /\ ln # <<>>
    /\ Head(ln) \in {"+", "-"}
    /\ strip(Tail(ln)) # <<>>

RECURSIVE PickLoop(_, _, _, _)
PickLoop(lines, k, picked, max_lines) ==
    IF k > Len(lines) THEN picked
    ELSE IF IsMarker(lines[k]) THEN PickLoop(lines, k + 1, picked, max_lines)
    ELSE LET picked1 == IF IsPickable(lines[k])
                          THEN Append(picked, lines[k]) ELSE picked
         IN  IF Len(picked1) >= max_lines THEN picked1
             ELSE PickLoop(lines, k + 1, picked1, max_lines)

make_diff(prev_text, curr_text, max_lines) ==
    PickLoop(unified_diff(splitlines(prev_text), splitlines(curr_text), 1),
             1, <<>>, max_lines)

(***************************************************************************)
(* The environment: the URLs that may be listed, the lines urls.txt may    *)
(* hold, the pages a URL may serve and the failures a request may raise.   *)
(***************************************************************************)
URLS == {"u1", "u2"}

\* a URL, or a comment line
FileLines == URLS \cup {"#"}

Pages ==
    { <<" ", "a", "\n", "<script>", "\n">>,
      <<"a", "\n", "b">> }

Errs == {"timeout", "HTTP 500"}

\* Python's None, for a hash, a text and an exception
NoHash == 0

NoText == <<"<None>">>

NoErr == "<None>"

EmptyMap == [u \in {} |-> 0]

\* state.json after a write that broke off: what it holds is not JSON
Corrupt == [u \in {"<not JSON>"} |-> [hash |-> NoHash]]

Restrict(f, S) == [x \in (DOMAIN f) \cap S |-> f[x]]

Put(f, x, v) == [y \in (DOMAIN f) \cup {x} |-> IF y = x THEN v ELSE f[y]]

RECURSIVE SeqsUpTo(_, _)
SeqsUpTo(S, n) ==
    IF n = 0 THEN {<<>>}
    ELSE LET shorter == SeqsUpTo(S, n - 1)
         IN  shorter \cup {Append(q, x) : q \in shorter, x \in S}

(***************************************************************************)
(* State.                                                                  *)
(***************************************************************************)
VARIABLES
    stateFile,        \* state.json on disk: URL -> [hash]
    textDir,          \* state_text/ on disk: url_key -> text
    pc,               \* where main is
    urls,             \* main: the loaded list
    state,            \* main: the state dict in memory
    served,           \* the page every URL serves during this run
    i,                \* main: position of the for loop in urls (from 1)
    attempt,          \* fetch: the loop variable
    last_err,         \* fetch: last_err
    html,             \* main: the body fetch returned
    changed_reports,  \* main: (url, diff_lines) pairs
    errors,           \* main: (url, message) pairs
    mail,             \* "none", "sent" or "failed": what send_email did
    body,             \* the body handed to send_email
    fetchLog,         \* history: the events of the current call of fetch
    outcomes,         \* history: (url, "ok" / "error") per round of the loop
    sends,            \* history: calls of send_email in this run
    cleanups,         \* history: calls of cleanup_state in this run
    loaded,           \* history: the store as it was when the run loaded it
    prev,             \* history: the last completed run, see FollowsRun
    arg_prev_text,    \* make_diff called on its own: prev_text
    arg_curr_text,    \*   curr_text
    arg_max_lines,    \*   max_lines
    ret_picked,       \*   the list it returned
    md_pc             \*   "call" or "return"

storeVars == <<stateFile, textDir>>

runVars == <<pc, urls, state, served, i, attempt, last_err, html,
             changed_reports, errors, mail, body>>

histVars == <<fetchLog, outcomes, sends, cleanups, loaded, prev>>

diffVars == <<arg_prev_text, arg_curr_text, arg_max_lines, ret_picked, md_pc>>

vars == <<storeVars, runVars, histVars, diffVars>>

DefaultServed == [u \in URLS |-> <<" ", "a", "\n", "<script>", "\n">>]

\* no completed run precedes, or none that the current run repeats
NoRun == [listed |-> {}, same |-> FALSE, ok |-> {}]

NoLoad == [state |-> EmptyMap, text |-> EmptyMap]

Init ==
    /\ stateFile = EmptyMap
    /\ textDir = EmptyMap
    /\ pc = "idle"
    /\ urls = <<>>
    /\ state = EmptyMap
    /\ served = DefaultServed
    /\ i = 1
    /\ attempt = 0
    /\ last_err = NoErr
    /\ html = <<>>
    /\ changed_reports = <<>>
    /\ errors = <<>>
    /\ mail = "none"
    /\ body = <<>>
    /\ fetchLog = <<>>
    /\ outcomes = <<>>
    /\ sends = 0
    /\ cleanups = 0
    /\ loaded = NoLoad
    /\ prev = NoRun
    /\ arg_prev_text = <<>>
    /\ arg_curr_text = <<>>
    /\ arg_max_lines = 0
    /\ ret_picked = <<>>
    /\ md_pc = "idle"

(***************************************************************************)
(* load_urls, load_state, load_prev_text, save_curr_text, cleanup_state.   *)
(***************************************************************************)
load_urls(file) == SelectSeq(file, LAMBDA line : line # "#")

\* the dict read from state.json; {} when there is no file yet
load_state == stateFile

load_prev_text(dir, url) ==
    IF url_key(url) \in DOMAIN dir THEN dir[url_key(url)] ELSE NoText

\* a save_curr_text that writes nothing
save_curr_text_Skipped(dir, url, text) == dir

save_curr_text(dir, url, text) == Put(dir, url_key(url), text)

\* the text files cleanup_state tries to unlink
StaleFiles(active_urls, dir) ==
    (DOMAIN dir) \ {url_key(u) : u \in Range(active_urls)}

\* the directory after the unlink loop, when unlink raised for `kept`
CleanTextDir(dir, active_urls, kept) ==
    Restrict(dir, (DOMAIN dir) \ (StaleFiles(active_urls, dir) \ kept))

\* a cleanup that leaves state.json alone
CleanState_KeepAll(active_urls, st) == st

\* the dict after the del loop
CleanState(active_urls, st) == Restrict(st, Range(active_urls))

(***************************************************************************)
(* main, up to the loop.                                                   *)
(***************************************************************************)
\* the for loop moves to position k: the next call of fetch, or the end
EnterLoopAt(k) ==
    /\ i' = k
    /\ attempt' = 0
    /\ last_err' = NoErr
    /\ html' = <<>>
    /\ fetchLog' = <<>>
    /\ pc' = IF k <= Len(urls) THEN "fetch" ELSE "save"

\* the URLs whose fetch returned in the run so far
OkUrls == {o[1] : o \in {x \in Range(outcomes) : x[2] = "ok"}}

\* history: the list of the last completed run; whether the run that
\* starts follows a completed run directly, over the same list and with
\* every URL serving what it served then; and if so the URLs whose fetch
\* returned in that run
FollowsRun ==
    LET same == /\ pc = "done"
                /\ urls' = urls
                /\ \A u \in Range(urls) : served'[u] = served[u]
    IN  [listed |-> prev.listed, same |-> same,
         ok |-> IF same THEN OkUrls ELSE {}]

\* lines 189-190, with what the world serves during this run
MainStart ==
    /\ pc \in {"idle", "done", "failed"}
    /\ stateFile # Corrupt
    /\ \E file \in SeqsUpTo(FileLines, MaxUrls) :
         /\ urls' = load_urls(file)
         /\ \E sv \in [URLS -> Pages] :
              /\ \A u \in URLS \ Range(urls') : sv[u] = DefaultServed[u]
              /\ served' = sv
    /\ state' = load_state
    /\ loaded' = [state |-> stateFile, text |-> textDir]
    /\ changed_reports' = <<>>
    /\ errors' = <<>>
    /\ mail' = "none"
    /\ body' = <<>>
    /\ outcomes' = <<>>
    /\ sends' = 0
    /\ cleanups' = 0
    /\ i' = 1
    /\ attempt' = 0
    /\ last_err' = NoErr
    /\ html' = <<>>
    /\ fetchLog' = <<>>
    /\ pc' = "cleanup"
    /\ UNCHANGED <<storeVars, diffVars>>

\* lines 189-190 when load_state raises (state.json cannot be read, or
\* json.loads rejects what it holds): the exception leaves main, and the
\* list that line 189 loaded is lost with it
LoadFails ==
    /\ pc \in {"idle", "done", "failed"}
    /\ urls' = <<>>
    /\ state' = EmptyMap
    /\ served' = DefaultServed
    /\ loaded' = NoLoad
    /\ changed_reports' = <<>>
    /\ errors' = <<>>
    /\ mail' = "none"
    /\ body' = <<>>
    /\ outcomes' = <<>>
    /\ sends' = 0
    /\ cleanups' = 0
    /\ i' = 1
    /\ attempt' = 0
    /\ last_err' = NoErr
    /\ html' = <<>>
    /\ fetchLog' = <<>>
    /\ pc' = "failed"
    /\ UNCHANGED <<storeVars, prev, diffVars>>

\* a run starts; no history of earlier runs is kept
StartRun == MainStart /\ UNCHANGED prev

\* a run starts, and the history says how it follows the run before
StartRunAfter == MainStart /\ prev' = FollowsRun

\* line 193: unlink may raise for any of the stale files, which then stay
Cleanup ==
    /\ pc = "cleanup"
    /\ \E kept \in SUBSET StaleFiles(urls, textDir) :
         textDir' = CleanTextDir(textDir, urls, kept)
    /\ state' = CleanState(urls, state)
    /\ cleanups' = cleanups + 1
    /\ EnterLoopAt(1)
    /\ UNCHANGED <<stateFile, urls, served, changed_reports, errors, mail,
                   body, outcomes, sends, loaded, prev, diffVars>>

(***************************************************************************)
(* fetch (lines 71-84), one action per request and one for the sleep.      *)
(***************************************************************************)
\* a fetch that goes round once more than RETRY_TOTAL allows
RetryAfter_OneMore(k) == k < RETRY_TOTAL

\* line 81: another attempt follows the failed one
RetryAfter(k) == k < RETRY_TOTAL - 1

\* line 84: the exception fetch raises
RaisedError(log, last) == last

\* requests.get and raise_for_status succeed: fetch returns the body
FetchOk ==
    /\ pc = "fetch"
    /\ html' = served[urls[i]]
    /\ fetchLog' = Append(fetchLog, <<"ok", attempt>>)
    /\ pc' = "fetched"
    /\ UNCHANGED <<storeVars, urls, state, served, i, attempt, last_err,
                   changed_reports, errors, mail, body, outcomes, sends,
                   cleanups, loaded, prev, diffVars>>

\* they raise e: sleep and go round again, or raise out of fetch
FetchErr ==
    /\ pc = "fetch"
    /\ \E e \in Errs :
         /\ fetchLog' = Append(fetchLog, <<e, attempt>>)
         /\ IF RetryAfter(attempt)
              THEN /\ last_err' = e
                   /\ pc' = "sleep"
              ELSE /\ last_err' = RaisedError(fetchLog', e)
                   /\ pc' = "raised"
    /\ UNCHANGED <<storeVars, urls, state, served, i, attempt, html,
                   changed_reports, errors, mail, body, outcomes, sends,
                   cleanups, loaded, prev, diffVars>>

\* time.sleep(RETRY_SLEEP_SEC), then the next round of the loop
Sleep ==
    /\ pc = "sleep"
    /\ fetchLog' = Append(fetchLog, <<"sleep", attempt>>)
    /\ attempt' = attempt + 1
    /\ pc' = "fetch"
    /\ UNCHANGED <<storeVars, urls, state, served, i, last_err, html,
                   changed_reports, errors, mail, body, outcomes, sends,
                   cleanups, loaded, prev, diffVars>>

(***************************************************************************)
(* main, the body of the loop after fetch returned (lines 201-216) or      *)
(* raised (lines 218-219).                                                 *)
(***************************************************************************)
\* line 204
PrevHash(st, url) == IF url \in DOMAIN st THEN st[url].hash ELSE NoHash

\* a comparison that does not ask for the previous text
IsChanged_AnyText(prev_hash, curr_hash, prev_text) ==
    /\ prev_hash # NoHash
    /\ prev_hash # curr_hash

\* line 208
IsChanged(prev_hash, curr_hash, prev_text) ==
    /\ prev_hash # NoHash
    /\ prev_hash # curr_hash
    /\ prev_text # NoText

\* a snapshot that is created once and never overwritten
RecordSnapshot_KeepOld(st, url, curr_hash) ==
    IF url \in DOMAIN st THEN st ELSE Put(st, url, [hash |-> curr_hash])

\* lines 213-216 (the time stamp is left out: nothing reads it)
RecordSnapshot(st, url, curr_hash) == Put(st, url, [hash |-> curr_hash])

\* line 219
RecordError(errs, url, e) == Append(errs, <<url, e>>)

\* an except that gives up the rest of the list
AfterExcept_Abort(k) == Len(urls) + 1

\* the position the loop goes on with after an except
AfterExcept(k) == k + 1

\* lines 208-210
Report(changed, url, prev_hash, curr_hash, prev_text, curr_text) ==
    IF IsChanged(prev_hash, curr_hash, prev_text)
      THEN Append(changed,
                  <<url, make_diff(prev_text, curr_text, DIFF_MAX_LINES)>>)
      ELSE changed

\* lines 202-216 on the normalised text
Compare(url, curr_text) ==
    /\ changed_reports' =
         Report(changed_reports, url, PrevHash(state, url), sha256(curr_text),
                load_prev_text(textDir, url), curr_text)
    /\ textDir' = save_curr_text(textDir, url, curr_text)
    /\ state' = RecordSnapshot(state, url, sha256(curr_text))

Process ==
    /\ pc = "fetched"
    /\ Compare(urls[i], normalize_html_to_text(html))
    /\ outcomes' = Append(outcomes, <<urls[i], "ok">>)
    /\ EnterLoopAt(i + 1)
    /\ UNCHANGED <<stateFile, urls, served, errors, mail, body, sends,
                   cleanups, loaded, prev, diffVars>>

\* an except clause that drops the snapshot of the URL that failed
Except_ForgetsSnapshot ==
    /\ pc = "raised"
    /\ errors' = RecordError(errors, urls[i], last_err)
    /\ outcomes' = Append(outcomes, <<urls[i], "error">>)
    /\ state' = Restrict(state, (DOMAIN state) \ {urls[i]})
    /\ EnterLoopAt(AfterExcept(i))
    /\ UNCHANGED <<storeVars, urls, served, changed_reports, mail,
                   body, sends, cleanups, loaded, prev, diffVars>>

\* lines 218-219
Except ==
    /\ pc = "raised"
    /\ errors' = RecordError(errors, urls[i], last_err)
    /\ outcomes' = Append(outcomes, <<urls[i], "error">>)
    /\ EnterLoopAt(AfterExcept(i))
    /\ UNCHANGED <<storeVars, urls, state, served, changed_reports, mail,
                   body, sends, cleanups, loaded, prev, diffVars>>

(***************************************************************************)
(* main after the loop: save_state (line 221), then the notification       *)
(* (lines 224-252).                                                        *)
(***************************************************************************)
save_state(st) == st

\* a main that goes on to the notification without writing state.json
SaveState_Skipped ==
    /\ pc = "save"
    /\ pc' = "notify"
    /\ UNCHANGED <<storeVars, urls, state, served, i, attempt, last_err, html,
                   changed_reports, errors, mail, body, histVars, diffVars>>

\* a main that catches the exception of save_state and goes on
SaveFails_Swallowed ==
    /\ pc = "save"
    /\ stateFile' \in {stateFile, Corrupt}
    /\ pc' = "notify"
    /\ UNCHANGED <<textDir, urls, state, served, i, attempt, last_err, html,
                   changed_reports, errors, mail, body, histVars, diffVars>>

\* line 221 when save_state raises: state.json is as it was, or the write
\* broke off; the exception leaves main
SaveFails ==
    /\ pc = "save"
    /\ stateFile' \in {stateFile, Corrupt}
    /\ pc' = "failed"
    /\ UNCHANGED <<textDir, urls, state, served, i, attempt, last_err, html,
                   changed_reports, errors, mail, body, histVars, diffVars>>

\* line 221
SaveState ==
    /\ pc = "save"
    /\ stateFile' = save_state(state)
    /\ pc' = "notify"
    /\ UNCHANGED <<textDir, urls, state, served, i, attempt, last_err, html,
                   changed_reports, errors, mail, body, histVars, diffVars>>

\* a notification for changes only
ShouldNotify_ChangedOnly(changed, errs) == changed # <<>>

\* line 224
ShouldNotify(changed, errs) == changed # <<>> \/ errs # <<>>

ChangedHeading == <<"[updated URLs: diff +added / -removed, 20 lines at most]">>

TooLargeMarker == <<"(the diff is too large or special to fit in 20 lines)">>

ErrorHeading == <<"[fetch errors: possibly blocked or a temporary failure]">>

Footer == <<"(this mail is sent automatically)">>

\* line 235: the line that opens the block of a changed URL
BlockHeader(url) == <<>>

\* lines 233-240
ChangedBlock(report) ==
    <<BlockHeader(report[1])>>
      \o (IF report[2] # <<>> THEN report[2] ELSE <<TooLargeMarker>>)
      \o << <<>> >>

\* line 245
ErrorLine(err) == <<"-", " ", err[1], " ", ":", " ", err[2]>>

\* lines 228-248
BodyLines(changed, errs) ==
    (IF changed # <<>>
       THEN <<ChangedHeading, <<>> >>
            \o Flatten([k \in DOMAIN changed |-> ChangedBlock(changed[k])])
       ELSE <<>>)
    \o (IF errs # <<>>
          THEN <<ErrorHeading>>
               \o [k \in DOMAIN errs |-> ErrorLine(errs[k])]
               \o << <<>> >>
          ELSE <<>>)
    \o <<Footer>>

\* send_email is called, and delivers or raises; or nothing is sent
MainNotify ==
    /\ pc = "notify"
    /\ IF ShouldNotify(changed_reports, errors)
         THEN /\ body' = join(BodyLines(changed_reports, errors))
              /\ mail' \in {"sent", "failed"}
              /\ sends' = sends + 1
         ELSE /\ body' = body
              /\ mail' = "none"
              /\ sends' = sends
    /\ pc' = "done"
    /\ loaded' = NoLoad
    /\ UNCHANGED <<storeVars, urls, state, served, i, attempt, last_err,
                   html, changed_reports, errors, fetchLog, outcomes,
                   cleanups, diffVars>>

\* the run completes; no history of it is kept
Notify == MainNotify /\ UNCHANGED prev

\* the run completes, and the history keeps its list
NotifyAndRemember ==
    MainNotify /\ prev' = [listed |-> Range(urls), same |-> FALSE, ok |-> {}]

\* history: no URL has been fetched yet
NoSnapshots == [seen |-> EmptyMap, missed |-> EmptyMap]

\* history, when the run is over: for every URL of the list that was fetched
\* in this run or in an earlier one, and has stayed in the list since, the
\* text of the last fetch that returned, and the number of runs since then
\* in which its fetch failed (counted up to MaxMissed)
SnapshotsAfterRun ==
    LET known == OkUrls \cup ((DOMAIN prev.seen) \cap Range(urls))
    IN  [seen   |-> [u \in known |->
                       IF u \in OkUrls
                         THEN normalize_html_to_text(served[u])
                         ELSE prev.seen[u]],
         missed |-> [u \in known |->
                       IF u \in OkUrls THEN 0
                       ELSE Min2(prev.missed[u] + 1, MaxMissed)]]

\* the run completes, and the history keeps what was fetched
NotifyAndTrack == MainNotify /\ prev' = SnapshotsAfterRun

\* the process is killed in the middle of a run: memory is lost, disk stays
Interrupt ==
    /\ pc \notin {"idle", "done"}
    /\ pc' = "idle"
    /\ urls' = <<>>
    /\ state' = EmptyMap
    /\ served' = DefaultServed
    /\ i' = 1
    /\ attempt' = 0
    /\ last_err' = NoErr
    /\ html' = <<>>
    /\ changed_reports' = <<>>
    /\ errors' = <<>>
    /\ mail' = "none"
    /\ body' = <<>>
    /\ fetchLog' = <<>>
    /\ outcomes' = <<>>
    /\ sends' = 0
    /\ cleanups' = 0
    /\ loaded' = NoLoad
    /\ UNCHANGED <<storeVars, prev, diffVars>>

Next ==
    \/ StartRun
    \/ Cleanup
    \/ FetchOk
    \/ FetchErr
    \/ Sleep
    \/ Process
    \/ Except
    \/ SaveState
    \/ Notify

\* runs that are never interrupted
Spec == Init /\ [][Next]_vars

NextHistory ==
    \/ StartRunAfter
    \/ Cleanup
    \/ FetchOk
    \/ FetchErr
    \/ Sleep
    \/ Process
    \/ Except
    \/ SaveState
    \/ NotifyAndRemember

\* the same runs, with the history of the run before each
SpecHistory == Init /\ [][NextHistory]_vars

NextInterrupt ==
    \/ Next
    \/ Interrupt

\* runs that may be killed at any point
SpecInterrupt == Init /\ [][NextInterrupt]_vars

NextStoreFailure ==
    \/ Next
    \/ LoadFails
    \/ SaveFails

\* runs in which state.json may fail to be read or written
SpecStoreFailure == Init /\ [][NextStoreFailure]_vars

InitSnapshots ==
    /\ stateFile = EmptyMap
    /\ textDir = EmptyMap
    /\ pc = "idle"
    /\ urls = <<>>
    /\ state = EmptyMap
    /\ served = DefaultServed
    /\ i = 1
    /\ attempt = 0
    /\ last_err = NoErr
    /\ html = <<>>
    /\ changed_reports = <<>>
    /\ errors = <<>>
    /\ mail = "none"
    /\ body = <<>>
    /\ fetchLog = <<>>
    /\ outcomes = <<>>
    /\ sends = 0
    /\ cleanups = 0
    /\ loaded = NoLoad
    /\ prev = NoSnapshots
    /\ arg_prev_text = <<>>
    /\ arg_curr_text = <<>>
    /\ arg_max_lines = 0
    /\ ret_picked = <<>>
    /\ md_pc = "idle"

NextSnapshots ==
    \/ StartRun
    \/ Cleanup
    \/ FetchOk
    \/ FetchErr
    \/ Sleep
    \/ Process
    \/ Except
    \/ SaveState
    \/ NotifyAndTrack

\* runs that are never interrupted, with the history of what was fetched
SpecSnapshots == InitSnapshots /\ [][NextSnapshots]_vars

(***************************************************************************)
(* make_diff called on its own, on any two texts of up to MaxLines lines   *)
(* and any cap up to MaxCap.                                               *)
(***************************************************************************)
DiffLines ==
    { <<>>, <<" ">>, <<"a">>, <<"b">>, <<"-", "-", "a">>, <<"+", "+">> }

DiffTexts == {join(ls) : ls \in SeqsUpTo(DiffLines, MaxLines)}

InitDiff ==
    /\ stateFile = EmptyMap
    /\ textDir = EmptyMap
    /\ pc = "idle"
    /\ urls = <<>>
    /\ state = EmptyMap
    /\ served = DefaultServed
    /\ i = 1
    /\ attempt = 0
    /\ last_err = NoErr
    /\ html = <<>>
    /\ changed_reports = <<>>
    /\ errors = <<>>
    /\ mail = "none"
    /\ body = <<>>
    /\ fetchLog = <<>>
    /\ outcomes = <<>>
    /\ sends = 0
    /\ cleanups = 0
    /\ loaded = NoLoad
    /\ prev = NoRun
    /\ arg_prev_text \in DiffTexts
    /\ arg_curr_text \in DiffTexts
    /\ arg_max_lines \in 0 .. MaxCap
    /\ ret_picked = <<>>
    /\ md_pc = "call"

CallMakeDiff ==
    /\ md_pc = "call"
    /\ ret_picked' = make_diff(arg_prev_text, arg_curr_text, arg_max_lines)
    /\ md_pc' = "return"
    /\ UNCHANGED <<storeVars, runVars, histVars, arg_prev_text,
                   arg_curr_text, arg_max_lines>>

NextDiff == CallMakeDiff

SpecDiff == InitDiff /\ [][NextDiff]_vars

(***************************************************************************)
(* What the claims speak of.                                               *)
(***************************************************************************)
InRun == pc \notin {"idle", "done"}

InLoop == pc \in {"fetch", "sleep", "fetched", "raised"}

ChangedUrls == {r[1] : r \in Range(changed_reports)}

\* the normalised text and the fingerprint of what a URL serves in this run
NewText(u) == normalize_html_to_text(served[u])

NewHash(u) == sha256(NewText(u))

\* the conditions for Changed, read off the store as the run loaded it
ChangeDue(u) ==
    /\ u \in OkUrls
    /\ u \in DOMAIN loaded.state
    /\ loaded.state[u].hash # NewHash(u)
    /\ url_key(u) \in DOMAIN loaded.text

\* C1: at every point of a run, a URL has an entry in changed_reports if
\* and only if its fetch returned, the loaded state held a fingerprint for
\* it, that fingerprint differs from the one of the new normalised text, and
\* its previous text was in the text store; so a URL seen for the first
\* time, or one whose previous text is missing, is never Changed.
C1_ChangedIff ==
    InRun => \A u \in URLS : (u \in ChangedUrls) <=> ChangeDue(u)

\* one URL is reported Changed, and another, whose fingerprint is new but
\* whose previous text is missing, is not
C1_Witness ==
    /\ pc = "notify"
    /\ \E u \in ChangedUrls :
         \E v \in OkUrls \ ChangedUrls :
           /\ v \in DOMAIN loaded.state
           /\ loaded.state[v].hash # NewHash(v)
           /\ url_key(v) \notin DOMAIN loaded.text

\* C2: once the loop is entered, a URL whose fetch returned has the new
\* text in the text store and the new fingerprint in the state, whatever
\* was stored before; a listed URL whose fetch has not returned has the
\* text and the fingerprint the run loaded, or still none; and state.json
\* is written as the state stands.
C2_SnapshotFrame ==
    /\ (InLoop \/ pc \in {"save", "notify"}) =>
         \A u \in Range(urls) :
           IF u \in OkUrls
             THEN /\ PrevHash(state, u) = NewHash(u)
                  /\ load_prev_text(textDir, u) = NewText(u)
             ELSE /\ PrevHash(state, u) = PrevHash(loaded.state, u)
                  /\ load_prev_text(textDir, u) = load_prev_text(loaded.text, u)
    /\ pc = "notify" => stateFile = state

\* the state is written; one URL was fetched with unchanged content, and
\* the fetch of another one, which has a snapshot, failed
C2_Witness ==
    /\ pc = "notify"
    /\ \E u \in OkUrls : PrevHash(loaded.state, u) = NewHash(u)
    /\ \E v \in Range(urls) \ OkUrls : v \in DOMAIN loaded.state

\* C3: cleanup_state is called once per run, before anything is fetched,
\* and after a completed run neither state.json nor the text store holds
\* anything for a URL that is not in the list of that run.
C3_EvictionComplete ==
    /\ pc = "cleanup" => cleanups = 0 /\ outcomes = <<>> /\ fetchLog = <<>>
    /\ (InLoop \/ pc \in {"save", "notify", "done"}) => cleanups = 1
    /\ pc = "done" =>
         /\ DOMAIN stateFile \subseteq Range(urls)
         /\ DOMAIN textDir \subseteq {url_key(u) : u \in Range(urls)}

\* C4: a URL that was not in the list of the last completed run is not
\* reported Changed by the run that lists it again.
C4_ReaddedIsFirstSeen ==
    InRun => \A u \in Range(urls) \ prev.listed : u \notin ChangedUrls

\* a URL is listed again and fetched while the text store still holds its
\* old text, which differs from the new one, and it is not reported
C4_Witness ==
    /\ pc = "notify"
    /\ \E u \in OkUrls \ prev.listed :
         /\ url_key(u) \in DOMAIN loaded.text
         /\ loaded.text[url_key(u)] # NewText(u)
         /\ u \notin ChangedUrls

\* the URLs of the rounds of the loop so far, in order
Visited == [k \in DOMAIN outcomes |-> outcomes[k][1]]

UrlsWith(result) ==
    [k \in DOMAIN SelectSeq(outcomes, LAMBDA o : o[2] = result) |->
       SelectSeq(outcomes, LAMBDA o : o[2] = result)[k][1]]

\* changed_reports of a run over `list` in which no fetch fails
RECURSIVE RunWithout(_, _, _, _)
RunWithout(list, st, dir, changed) ==
    IF list = <<>> THEN changed
    ELSE RunWithout(Tail(list),
                    RecordSnapshot(st, Head(list), NewHash(Head(list))),
                    save_curr_text(dir, Head(list), NewText(Head(list))),
                    Report(changed, Head(list), PrevHash(st, Head(list)),
                           NewHash(Head(list)),
                           load_prev_text(dir, Head(list)),
                           NewText(Head(list))))

\* C5: the loop goes through the list once and in order whatever fails;
\* when it is over, errors holds one entry per failed round, in order, with
\* the URL and the description of the failure, changed_reports is what a
\* run over the list without the failed rounds reports, and state.json is
\* then written.
C5_ErrorIsolation ==
    /\ InLoop => i <= Len(urls) /\ Visited = SubSeq(urls, 1, i - 1)
    /\ pc \in {"save", "notify"} =>
         /\ Visited = urls
         /\ [k \in DOMAIN errors |-> errors[k][1]] = UrlsWith("error")
         /\ \A k \in DOMAIN errors : errors[k][2] \in Errs
         /\ changed_reports =
              RunWithout(UrlsWith("ok"), loaded.state, loaded.text, <<>>)
    /\ pc = "notify" => stateFile = state

\* the first URL of the list failed, a later one is reported Changed, and
\* the state is written
C5_Witness ==
    /\ pc = "notify"
    /\ Len(outcomes) >= 2
    /\ outcomes[1][2] = "error"
    /\ \E k \in DOMAIN outcomes :
         k > 1 /\ outcomes[k][2] = "ok" /\ outcomes[k][1] \in ChangedUrls

\* C6: send_email is called at most once per run, not before the loop is
\* over and the state is written, and a completed run has called it if and
\* only if it has a Changed or an Error outcome.
C6_NotifyOnce ==
    /\ sends <= 1
    /\ pc # "done" => sends = 0 /\ mail = "none"
    /\ pc = "done" =>
         /\ Len(outcomes) = Len(urls)
         /\ sends = 1 <=> (changed_reports # <<>> \/ errors # <<>>)
         /\ mail # "none" <=> sends = 1

\* a run without changes but with an error has sent its notification
C6_Witness ==
    /\ pc = "done"
    /\ sends = 1
    /\ changed_reports = <<>>
    /\ errors # <<>>

\* C7 as stated: a run that follows a completed run over the same list,
\* every URL serving what it served then, reports nothing Changed.
C7_IdempotentAnyFirstRun == prev.same => changed_reports = <<>>

\* C7, amended: such a run reports no URL Changed whose fetch returned in
\* the run before.
C7_IdempotentAfterSuccess == prev.same => ChangedUrls \cap prev.ok = {}

\* the second of two such runs fetched a URL again that the first had
\* fetched, and reports another one, whose fetch the first run missed
C7_Witness ==
    /\ pc = "notify"
    /\ prev.same
    /\ prev.ok \cap OkUrls # {}
    /\ ChangedUrls # {}

\* the requests of the current call of fetch, without the sleeps
Attempts == SelectSeq(fetchLog, LAMBDA x : x[1] # "sleep")

\* C8: a call of fetch makes at most RETRY_TOTAL requests, none after one
\* that succeeded; requests and sleeps alternate, with no sleep after the
\* last request; fetch returns the body of the request that succeeded; and
\* it raises only after RETRY_TOTAL failed requests, and then the error of
\* the last one.
C8_FetchRetries ==
    /\ Len(Attempts) <= RETRY_TOTAL
    /\ \A k \in DOMAIN fetchLog :
         /\ (k % 2 = 0) <=> (fetchLog[k][1] = "sleep")
         /\ fetchLog[k][1] = "ok" => k = Len(fetchLog)
    /\ pc = "sleep" => Len(Attempts) < RETRY_TOTAL
    /\ pc = "fetched" =>
         /\ fetchLog[Len(fetchLog)][1] = "ok"
         /\ html = served[urls[i]]
    /\ pc = "raised" =>
         /\ Len(Attempts) = RETRY_TOTAL
         /\ \A k \in DOMAIN Attempts : Attempts[k][1] \in Errs
         /\ last_err = fetchLog[Len(fetchLog)][1]

\* fetch raises after two requests that failed differently
C8_Witness ==
    /\ pc = "raised"
    /\ Len(fetchLog) = 3
    /\ fetchLog[1][1] # last_err

\* an addition or removal whose content is empty or white space
IsBlankChange(ln) ==
    /\ ln # <<>>
    /\ Head(ln) \in {"+", "-"}
    /\ strip(Tail(ln)) = <<>>

\* C9: make_diff returns at most max_lines lines, none of them a file
\* header, a hunk header or a blank addition or removal.
C9_DiffBound ==
    md_pc = "return" =>
      /\ Len(ret_picked) <= arg_max_lines
      /\ \A k \in DOMAIN ret_picked :
           /\ ret_picked[k] \notin {FileHeaderFrom, FileHeaderTo}
           /\ ~StartsWith(ret_picked[k], <<"@", "@">>)
           /\ ~IsBlankChange(ret_picked[k])

\* the lines a report must show below the line of its URL
Shown(report) == IF report[2] # <<>> THEN report[2] ELSE <<TooLargeMarker>>

\* C10: the body of a notification has, for every Changed URL, a line
\* with that URL followed by its diff lines or the marker, and for every
\* Error outcome the line "- URL : message".
C10_BodyNamesUrls ==
    (pc = "done" /\ sends = 1) =>
      /\ \A r \in Range(changed_reports) :
           \E j \in DOMAIN splitlines(body) :
             /\ r[1] \in Range(splitlines(body)[j])
             /\ j + Len(Shown(r)) <= Len(splitlines(body))
             /\ SubSeq(splitlines(body), j + 1, j + Len(Shown(r))) = Shown(r)
      /\ \A e \in Range(errors) :
           \E j \in DOMAIN splitlines(body) :
             splitlines(body)[j] = <<"-", " ", e[1], " ", ":", " ", e[2]>>

\* C11: when no run is under way, and so after a run was killed at any
\* point, every URL that has both a text in the text store and a fingerprint
\* in state.json has a text that hashes to that fingerprint; and a run
\* reports no URL Changed whose new text is the text the store held for it
\* when the run started.
C11_DurableConsistent ==
    /\ pc = "idle" =>
         \A u \in DOMAIN stateFile :
           url_key(u) \in DOMAIN textDir =>
             sha256(textDir[url_key(u)]) = stateFile[u].hash
    /\ InRun =>
         \A u \in ChangedUrls :
           load_prev_text(loaded.text, u) # NewText(u)

\* C12: every step that calls send_email is taken after the loop, with
\* state.json holding the state of the run, and leaves state.json and the
\* text store as they are whether the send succeeds or fails.
C12_SaveBeforeSend ==
    [][sends' = sends + 1 =>
         /\ pc = "notify"
         /\ Len(outcomes) = Len(urls)
         /\ stateFile = state
         /\ mail' \in {"sent", "failed"}
         /\ UNCHANGED storeVars]_vars

\* the send failed in a run that reported a URL Changed, and state.json
\* holds the fingerprint of the new text of that URL
C12_Witness ==
    /\ pc = "done"
    /\ mail = "failed"
    /\ \E u \in ChangedUrls :
         u \in DOMAIN stateFile /\ stateFile[u].hash = NewHash(u)

\* C13: a run in which load_state or save_state raised has called send_email
\* not at all and has recorded the failure in no entry of errors; and a run
\* comes to the notification only with state.json read and then written as
\* the state stands.
C13_StoreFailureIsFatal ==
    /\ pc = "failed" =>
         /\ sends = 0
         /\ mail = "none"
         /\ body = <<>>
         /\ Len(errors) = Len(UrlsWith("error"))
         /\ \A e \in Range(errors) : e[2] \in Errs
    /\ pc \in {"cleanup", "fetch", "sleep", "fetched", "raised", "save",
               "notify"} => loaded.state # Corrupt
    /\ pc \in {"notify", "done"} => stateFile = state

\* save_state raised in a run that had a Changed URL and a fetch error to
\* report, and left state.json broken
C13_Witness ==
    /\ pc = "failed"
    /\ changed_reports # <<>>
    /\ errors # <<>>
    /\ stateFile = Corrupt

\* the lines of a unified diff that make_diff would return without a cap
EligibleLines(diff) ==
    SelectSeq(diff, LAMBDA ln : ~IsMarker(ln) /\ IsPickable(ln))

EligibleOf(prev_text, curr_text) ==
    EligibleLines(unified_diff(splitlines(prev_text), splitlines(curr_text), 1))

\* C14: when max_lines is 1 or more and the diff has more eligible lines
\* than max_lines, make_diff returns exactly max_lines lines, the block main
\* renders from them is not the block of an empty diff, and what it returns
\* is returned by no call with the same cap whose diff has exactly max_lines
\* eligible lines.
C14_TruncationTold ==
    (md_pc = "return"
       /\ arg_max_lines >= 1
       /\ Len(EligibleOf(arg_prev_text, arg_curr_text)) > arg_max_lines) =>
      /\ Len(ret_picked) = arg_max_lines
      /\ ChangedBlock(<<"u1", ret_picked>>) # ChangedBlock(<<"u1", <<>> >>)
      /\ \A p \in DiffTexts, c \in DiffTexts :
           Len(EligibleOf(p, c)) = arg_max_lines =>
             make_diff(p, c, arg_max_lines) # ret_picked

\* the lines of the hunks of a unified diff, in order, without the two file
\* headers and without the header of each hunk
ContentLines(a, b, groups) ==
    Flatten([g \in DOMAIN groups |->
               Flatten([k \in DOMAIN groups[g] |->
                          OpcodeLines(a, b, groups[g][k])])])

\* the additions and removals among them whose content is not blank
ChangedContent(a, b) ==
    SelectSeq(ContentLines(a, b, get_grouped_opcodes(a, b, 1)), IsPickable)

FirstN(s, n) == SubSeq(s, 1, Min2(n, Len(s)))

\* C15: for a cap of 1 or more, make_diff returns the first max_lines of the
\* additions and removals of the unified diff whose content is not blank, in
\* the order of the diff, whatever characters the content begins with.
C15_FirstChangedLines ==
    (md_pc = "return" /\ arg_max_lines >= 1) =>
      ret_picked =
        FirstN(ChangedContent(splitlines(arg_prev_text),
                              splitlines(arg_curr_text)), arg_max_lines)

\* C16: when no run is under way, every URL with a fingerprint in
\* state.json has a text in the text store, and that text hashes to the
\* fingerprint.
C16_FingerprintHasText ==
    pc \in {"idle", "done"} =>
      \A u \in DOMAIN stateFile :
        /\ url_key(u) \in DOMAIN textDir
        /\ sha256(textDir[url_key(u)]) = stateFile[u].hash

\* a run is over in which one URL was reported Changed and the fetch of
\* another one, which keeps the snapshot of an earlier run, failed
C16_Witness ==
    /\ pc = "done"
    /\ ChangedUrls # {}
    /\ \E v \in DOMAIN stateFile : v \notin OkUrls

\* C17: in a run over a list that still holds a URL whose last fetched text
\* is c, however many runs have failed to fetch it since: once its fetch has
\* returned a text other than c, the URL is reported Changed; and as long as
\* it serves c, it is not reported Changed.
C17_NoChangeLost ==
    (InLoop \/ pc \in {"save", "notify"}) =>
      \A u \in (DOMAIN prev.seen) \cap Range(urls) :
        /\ (u \in OkUrls /\ NewText(u) # prev.seen[u]) => u \in ChangedUrls
        /\ NewText(u) = prev.seen[u] => u \notin ChangedUrls

\* a URL is reported Changed after MaxMissed runs in a row that failed to
\* fetch it, and another URL, fetched again with the text of its snapshot,
\* is not
C17_Witness ==
    /\ pc = "notify"
    /\ \E u \in ChangedUrls :
         /\ u \in DOMAIN prev.seen
         /\ prev.missed[u] = MaxMissed
    /\ \E v \in OkUrls \ ChangedUrls :
         /\ v \in DOMAIN prev.seen
         /\ prev.missed[v] = 0

=============================================================================
